---- MODULE Spec2Model ----
(***************************************************************************)
(* A model of generic_cli.Client (src/generic_cli/client.py): host         *)
(* resolution through the CrossRoads resolver, the tenacity retry loop     *)
(* around one request, the ShouldRetry signal and the error mapping of     *)
(* Client.issue.  Coroutines of one asyncio event loop are the tasks of    *)
(* the model: a task runs without interruption between two awaits, so one  *)
(* action is the code between two suspension points.                       *)
(***************************************************************************)
EXTENDS Integers, Sequences, FiniteSets, TLC

\* ---------------------------------------------------------------- bounds
\* Number of coroutines using the one Client concurrently.
NumTasks == 2
\* A transport answers retriably at most this many times in a row per issue.
MaxFailures == 2
\* Expiry boundaries (60 minutes each) the clock may cross after a resolution.
MaxExpiries == 1
\* Longest time, in seconds, one transport call takes.
MaxAttemptTime == 40
\* Calls of Client.resolve_host made by the application itself.
MaxDirectCalls == 1

\* ------------------------------------------------------ program constants
\* defaults.py line 8: stop_after_delay(30), in seconds
STOP_DELAY == 30
\* defaults.py line 7: wait_random_exponential(multiplier=1, max=15), in seconds
WAIT_MAX == 15
\* defaults.py line 5: TIMEOUT = 30, in seconds
TIMEOUT == 30

Tasks == 1..NumTasks

\* ------------------------------------------------------------ value space
NoHost == "None"
\* Hosts the resolver service may answer with, and the explicit host of a
\* static Client.
ResolvedHosts == {"http://a", "http://b"}
StaticHost == "http://localhost:81"


\* Tags a structured error payload may carry in 'cls', and the registrations
\* register_exception_cls is called with.
Tags == {"NotFound", "Conflict"}
Registrations == {<<"NotFound", "NotFoundError">>}
NoExceptions == [tag \in Tags |-> ""]
\* The registries a Client is constructed with: none, or NotFound mapped.
ExceptionArgs == {NoExceptions, [NoExceptions EXCEPT !["NotFound"] = "NotFoundError"]}

\* Status codes the transport answers with.
Statuses == {200, 201, 404, 500, 512}
\* Bodies the transport answers with.
Bodies ==
    {[fmt |-> "text", status |-> "", cls |-> ""],
     [fmt |-> "list", status |-> "", cls |-> ""],
     [fmt |-> "object", status |-> "ok", cls |-> ""],
     [fmt |-> "object", status |-> "error", cls |-> ""]}
    \cup {[fmt |-> "object", status |-> "error", cls |-> tag] : tag \in Tags}
\* Errors the transport call raises.
ErrorKinds == {"ClientConnectionError", "TimeoutError", "ValueError"}
\* Durations of a transport call, in seconds.
AttemptTimes == {0, MaxAttemptTime}
\* 2 ** k
RECURSIVE Pow2(_)
Pow2(k) == IF k = 0 THEN 1 ELSE 2 * Pow2(k - 1)
\* defaults.RETRY_POLICY 'wait': wait_random_exponential(multiplier=1, max=15)
\* draws the sleep after attempt n from 0 to min(2 ** (n - 1), 15) seconds;
\* whole seconds here.
wait(n) == IF Pow2(n - 1) < WAIT_MAX THEN Pow2(n - 1) ELSE WAIT_MAX
Waits(n) == 0..wait(n)
\* Every duration of a backoff sleep, in seconds.
AllWaits == 0..WAIT_MAX

\* An entry of the retry_codes a Client is configured with: an int or a str,
\* the str as the sequence of its characters.
IntCode(n) == [isInt |-> TRUE, n |-> n, s |-> <<>>]
StrCode(s) == [isInt |-> FALSE, n |-> 0, s |-> s]
\* The retry_codes configurations: defaults.RETRY_CODES, the {404} of
\* example.py, a mixed one and the empty one.
RetryCodeArgs ==
    {{StrCode(<<"5", "x", "x">>)},
     {IntCode(404)},
     {StrCode(<<"5", "0", "x">>), StrCode(<<"2", "0", "1">>)},
     {}}
\* The paths issue is called with.
Paths == {"/healthcheck", "/scrape"}
\* A retry_errors value: a tuple of exception classes or another iterable of
\* them (a list, a set).
TupleOf(kinds) == [type |-> "tuple", kinds |-> kinds]
ListOf(kinds) == [type |-> "list", kinds |-> kinds]
\* The retry_errors configurations: the default (), a tuple and a list.
RetryErrorArgs == {TupleOf({}), TupleOf({"TimeoutError"}), ListOf({"TimeoutError"})}

\* What an operation handed back to its caller: how is "return" or "raise";
\* via records the path get_host took ("static", "cached", "resolved",
\* "waited"), "" when no host was involved.
\* A response body as res.json() sees it: fmt is "text" (no JSON), "list" (JSON
\* that is no object) or "object", with the object's 'status' and 'cls' entries
\* ("" when the key is absent).
NoBody == [fmt |-> "", status |-> "", cls |-> ""]
NoResp == [status |-> 0, body |-> NoBody, attempt |-> 0]
NoResult == [how |-> "none", host |-> NoHost, resp |-> NoResp, exc |-> "", via |-> ""]
ReturnHost(h, v) == [how |-> "return", host |-> h, resp |-> NoResp, exc |-> "", via |-> v]
ReturnNone(v) == [how |-> "return", host |-> NoHost, resp |-> NoResp, exc |-> "", via |-> v]
\* __aenter__ returns the Client itself.
ReturnSelf(v) == [how |-> "return self", host |-> NoHost, resp |-> NoResp, exc |-> "", via |-> v]
ReturnResp(r) == [how |-> "return", host |-> NoHost, resp |-> r, exc |-> "", via |-> ""]
Raise(e) == [how |-> "raise", host |-> NoHost, resp |-> NoResp, exc |-> e, via |-> ""]
\* The outcome of the last attempt of the retry loop: a response or an error,
\* and whether the classifier wrapped it in a ShouldRetry signal.
\* took is the time the attempt's transport call took, in seconds.
NoAttempt == [kind |-> "none", resp |-> NoResp, exc |-> "", retry |-> FALSE, took |-> 0]

VARIABLES
    static,         \* Client._static
    host,           \* Client._host
    resolving,      \* Client.__resolving
    resolved,       \* Client.__resolved: "absent" (never assigned), "clear", "set"
    closed,         \* the aiohttp session of Client._session is closed
    exceptions,     \* Client.exceptions: tag -> exception class, "" when absent
    retry_codes,    \* SessionConfig.retry_codes after __post_init__
    retry_errors,   \* SessionConfig.retry_errors after __post_init__: its
                    \* type ("tuple" or "list") and the classes in it
    retry_codes_arg,\* the retry_codes the Client was constructed with
    constructed,    \* "no" before Client(...), then "ok" or "TypeError"
    ctor,           \* the class attributes and arguments of Client(...)
    session,        \* Client._session was created
    _prefix,        \* Client._prefix
    expiries,       \* 60-minute boundaries crossed since the host was stored
    resolverCalls,  \* calls made to the resolver service so far
    lastResolution, \* how the latest resolver call ended: "none", "pending",
                    \* "ok", "failed"
    directCalls,    \* calls of resolve_host made by the application itself
    pc,             \* per task: where its coroutine is suspended: "idle",
                    \* "crossroads" (resolver call), "aexit" (leaving the
                    \* CrossRoads block), "wait_resolved", "woken" (its event
                    \* is set), "request", "sleep", "decode", "yielded" (the
                    \* caller's block of issue), "session_close", "done"
    op,             \* per task: the operation it runs
    attempts,       \* per task: attempts the retry loop has started
    elapsed,        \* per task: seconds since the retry loop started
    fails,          \* per task: attempts the transport answered retriably
    last,           \* per task: outcome of the last finished attempt
    path,           \* per task: the path issue was called with
    url,            \* per task: the url of the attempt's request
    held,           \* per task: attempts whose response is not released
    result          \* per task: what the operation returned or raised

clientVars == <<static, host, resolving, resolved, closed, exceptions>>
configVars == <<retry_codes, retry_errors, retry_codes_arg, constructed, ctor,
               session, _prefix>>
taskVars == <<pc, op, attempts, elapsed, fails, last, path, url, held, result>>
resolverVars == <<resolverCalls, lastResolution, directCalls>>
vars == <<static, host, resolving, resolved, closed, exceptions, retry_codes,
          retry_errors, retry_codes_arg, constructed, ctor, session, _prefix,
          expiries, resolverCalls, lastResolution, directCalls, pc, op,
          attempts, elapsed, fails, last, path, url, held, result>>

\* Resolver-service calls that have been made and have not answered yet.
Outstanding == {t \in Tasks : pc[t] = "crossroads"}

\* ------------------------------------------------------- host resolution
\* Client.get_base_url line 156: f'{host}{self._prefix}'
get_base_url(h) == h \o _prefix
\* Client._retriable_issue line 176: f'{base_url}{path}'
request_url(h, p) == get_base_url(h) \o p

\* Operations whose attempts run in the retry loop, and those that close the
\* session when get_host raises.
Retrying == {"issue", "retriable_issue"}
Opening == {"open", "__aenter__"}

\* get_host handed host h back to its caller: Client.get_host returns it,
\* Client.open returns None, __aenter__ returns the Client,
\* Client._retriable_issue goes on to the transport call; resolve_host called
\* by the application returns None.
Returned(t, o, h, v) ==
    IF o \in Retrying
    THEN /\ pc' = [pc EXCEPT ![t] = "request"]
         /\ result' = [result EXCEPT ![t] = NoResult]
         /\ url' = [url EXCEPT ![t] = request_url(h, path'[t])]
         /\ UNCHANGED closed
    ELSE /\ pc' = [pc EXCEPT ![t] = "done"]
         /\ result' = [result EXCEPT ![t] =
                IF o \in {"open", "resolve_host"} THEN ReturnNone(v)
                ELSE IF o = "__aenter__" THEN ReturnSelf(v)
                ELSE ReturnHost(h, v)]
         /\ UNCHANGED <<closed, url>>

\* get_host raised exc into its caller and open lets it through as get_host
\* does, without closing the session.
FailedLeavesOpen(t, o, exc) ==
    /\ pc' = [pc EXCEPT ![t] = "done"]
    /\ result' = [result EXCEPT ![t] = Raise(exc)]
    /\ UNCHANGED <<closed, url>>

\* get_host raised exc into its caller: get_host and the attempt of issue let
\* it through (it is no ShouldRetry, so the retry loop re-raises it), open
\* awaits close() before it raises it again.
Failed(t, o, exc) ==
    /\ IF o \in Opening
       THEN /\ pc' = [pc EXCEPT ![t] = "session_close"]
            /\ result' = [result EXCEPT ![t] = NoResult]
       ELSE /\ pc' = [pc EXCEPT ![t] = "done"]
            /\ result' = [result EXCEPT ![t] = Raise(exc)]
    /\ UNCHANGED <<closed, url>>

\* resolve_host line 137: the marker the winner leaves for later callers.
MarkerForgotten == FALSE
Marker == TRUE

\* Client.resolve_host up to its first await.
resolve_host(t, o) ==
    IF resolving
    THEN /\ pc' = [pc EXCEPT ![t] = "wait_resolved"]
         /\ result' = [result EXCEPT ![t] = NoResult]
         /\ UNCHANGED <<resolving, resolved, resolverCalls, lastResolution,
                        closed, url>>
    ELSE /\ resolving' = Marker
         /\ resolved' = "clear"
         /\ resolverCalls' = resolverCalls + 1
         /\ lastResolution' = "pending"
         /\ pc' = [pc EXCEPT ![t] = "crossroads"]
         /\ result' = [result EXCEPT ![t] = NoResult]
         /\ UNCHANGED <<closed, url>>

\* Client.get_host, called by operation o of task t.
get_host(t, o) ==
    IF static
    THEN /\ Returned(t, o, host, "static")
         /\ UNCHANGED <<resolving, resolved, resolverCalls, lastResolution>>
    ELSE IF host # NoHost
    THEN /\ Returned(t, o, host, "cached")
         /\ UNCHANGED <<resolving, resolved, resolverCalls, lastResolution>>
    ELSE resolve_host(t, o)

\* A task is free to start an operation.
Free(t) == pc[t] \in {"idle", "done"}

\* Task t starts operation o on the constructed Client; a is 1 when o starts
\* the retry loop's first attempt at once, p is the path of an issue.
Begin(t, o, a, p) ==
    /\ constructed = "ok"
    /\ Free(t)
    /\ path' = [path EXCEPT ![t] = p]
    /\ held' = [held EXCEPT ![t] = {}]
    /\ op' = [op EXCEPT ![t] = o]
    /\ last' = [last EXCEPT ![t] = NoAttempt]
    /\ attempts' = [attempts EXCEPT ![t] = a]
    /\ elapsed' = [elapsed EXCEPT ![t] = 0]
    /\ fails' = [fails EXCEPT ![t] = 0]

\* await client.get_host()
CallGetHost(t) ==
    /\ Begin(t, "get_host", 0, "")
    /\ get_host(t, "get_host")
    /\ UNCHANGED <<static, host, exceptions, configVars, expiries, directCalls>>

\* await client.resolve_host(), called by the application itself: no look at
\* _static or _host.
CallResolveHost(t) ==
    /\ directCalls < MaxDirectCalls
    /\ directCalls' = directCalls + 1
    /\ Begin(t, "resolve_host", 0, "")
    /\ resolve_host(t, "resolve_host")
    /\ UNCHANGED <<static, host, exceptions, configVars, expiries>>

\* Client.open reaches the host through resolve_host directly.
OpenResolves(t) == resolve_host(t, "open")
\* Client.open: await self.get_host()
OpenHost(t) == get_host(t, "open")

\* await client.open()
CallOpen(t) ==
    /\ Begin(t, "open", 0, "")
    /\ OpenHost(t)
    /\ UNCHANGED <<static, host, exceptions, configVars, expiries, directCalls>>

\* async with client: __aenter__ awaits open() and returns the Client.
CallAEnter(t) ==
    /\ Begin(t, "__aenter__", 0, "")
    /\ get_host(t, "__aenter__")
    /\ UNCHANGED <<static, host, exceptions, configVars, expiries, directCalls>>

\* What the transport's close() leaves of its session, c telling whether the
\* session was closed before. The transport is no part of the repository: this
\* is the contract the specification gives the handle (released on close, no
\* way back from Closed, close safe to repeat), with no error of its own.
session_close(c) == TRUE

\* A close() that releases the session only on a Client that has its host, and
\* returns at once on any other.
CallCloseWhenReady(t) ==
    /\ Begin(t, "close", 0, "")
    /\ pc' = [pc EXCEPT ![t] = IF host # NoHost THEN "session_close" ELSE "done"]
    /\ result' = [result EXCEPT ![t] =
            IF host # NoHost THEN NoResult ELSE ReturnNone("")]
    /\ UNCHANGED <<clientVars, configVars, expiries, resolverVars, url>>
\* await client.close(), also __aexit__: up to the await of
\* self._session.close(), which close reaches whatever the state of the Client
\* (the session exists since line 86).
CallClose(t) ==
    /\ Begin(t, "close", 0, "")
    /\ pc' = [pc EXCEPT ![t] = "session_close"]
    /\ result' = [result EXCEPT ![t] = NoResult]
    /\ UNCHANGED <<clientVars, configVars, expiries, resolverVars, url>>

\* self._session.close() is done: close returns None, open raises the
\* resolution error it had caught (line 102).
SessionCloses(t) ==
    /\ pc[t] = "session_close"
    /\ closed' = session_close(closed)
    /\ pc' = [pc EXCEPT ![t] = "done"]
    /\ result' = [result EXCEPT ![t] =
            IF op[t] \in Opening THEN Raise("ResolutionError") ELSE ReturnNone("")]
    /\ UNCHANGED <<static, host, resolving, resolved, exceptions, configVars,
                   expiries, resolverVars, op, attempts, elapsed, fails, last,
                   path, url, held>>

\* resolve_host line 146 with the assignment left out.
StoreNothing(h) == host
\* resolve_host line 146: self._host = host
Store(h) == h

\* The tasks suspended in self.__resolved.wait() when the event is set are
\* scheduled to go on, whatever happens to Client.__resolved later.
Woken(p) == [u \in Tasks |-> IF p[u] = "wait_resolved" THEN "woken" ELSE p[u]]

\* The resolver service answers h: resolve_host stores it, clears the marker
\* and sets the event (lines 146-148), then leaves the CrossRoads block, whose
\* __aexit__ is awaited.
ResolverReturns(t, h) ==
    /\ pc[t] = "crossroads"
    /\ host' = Store(h)
    /\ resolving' = FALSE
    /\ resolved' = "set"
    /\ expiries' = 0
    /\ pc' = [Woken(pc) EXCEPT ![t] = "aexit"]
    /\ lastResolution' = "ok"
    /\ UNCHANGED <<static, closed, exceptions, configVars, resolverCalls,
                   directCalls, op, attempts, elapsed, fails, last, path, url,
                   held, result>>

\* CrossRoads.__aexit__ is done: resolve_host returns and get_host returns
\* the self._host of that moment (line 127).
ResolverExits(t) ==
    /\ pc[t] = "aexit"
    /\ UNCHANGED path
    /\ Returned(t, op[t], host, "resolved")
    /\ UNCHANGED <<static, host, resolving, resolved, exceptions, configVars,
                   expiries, resolverVars, op, attempts, elapsed, fails, last,
                   held>>

\* The resolver service raises (backend unreachable, name unknown): the
\* exception leaves resolve_host at line 139 or 140, before lines 146-148.
ResolverRaises(t) ==
    /\ pc[t] = "crossroads"
    /\ Failed(t, op[t], "ResolutionError")
    /\ lastResolution' = "failed"
    /\ UNCHANGED <<static, host, resolving, resolved, exceptions, configVars,
                   expiries, resolverCalls, directCalls, op, attempts, elapsed,
                   fails, last, path, held>>

\* _wait_for_host_resolution: the event the waiter waits on was set, the
\* waiter goes on and get_host returns self._host.
WaiterWakes(t) ==
    /\ pc[t] = "woken"
    /\ UNCHANGED path
    /\ Returned(t, op[t], host, "waited")
    /\ UNCHANGED <<static, host, resolving, resolved, exceptions, configVars,
                   expiries, resolverVars, op, attempts, elapsed, fails, last,
                   held>>

\* The clock crosses one more 60-minute boundary since the host was stored.
TimePasses ==
    /\ ~static
    /\ host # NoHost
    /\ expiries < MaxExpiries
    /\ expiries' = expiries + 1
    /\ UNCHANGED <<clientVars, configVars, resolverVars, taskVars>>

\* ------------------------------------------------------------ classifier
Digits == <<"0", "1", "2", "3", "4", "5", "6", "7", "8", "9">>

\* str() of a non-negative int, as the sequence of its characters.
RECURSIVE str(_)
str(n) == IF n < 10 THEN <<Digits[n + 1]>>
          ELSE str(n \div 10) \o <<Digits[(n % 10) + 1]>>

\* str() of a retry_codes entry: a str is itself.
str_code(e) == IF e.isInt THEN str(e.n) ELSE e.s

\* SessionConfig.__post_init__ line 27 with the entries kept as given: an int
\* entry never equals the string form of a status.
codes_as_given(arg) == {e.s : e \in arg}
\* SessionConfig.__post_init__ line 27: every entry becomes a str.
post_init_codes(arg) == {str_code(e) : e \in arg}

\* SessionConfig.__post_init__ lines 28-30: on_connerr adds the connection
\* error to the retriable errors.
post_init_errors(arg, on_connerr) ==
    IF on_connerr THEN TupleOf(arg.kinds \cup {"ClientConnectionError"}) ELSE arg

\* s[:k] of Python.
Slice(s, k) == SubSeq(s, 1, IF Len(s) < k THEN Len(s) ELSE k)

\* Client._check_status: TRUE when it raises ShouldRetry(response).
_check_status(status, codes) ==
    LET str_status == str(status)
    IN \/ str_status \in codes
       \/ Slice(str_status, 2) \o <<"x">> \in codes
       \/ Slice(str_status, 1) \o <<"x", "x">> \in codes

\* Client._check_error: the exception that leaves the with block when the
\* transport call raised exc.  'except errors' raises TypeError when errors
\* is no tuple, raises ShouldRetry(ex) when exc is of a class in it and lets
\* exc through otherwise.
_check_error(exc, errors) ==
    IF errors.type # "tuple" THEN "TypeError"
    ELSE IF exc \in errors.kinds THEN "ShouldRetry"
    ELSE exc

\* ----------------------------------------------------------- retry driver
Min(a, b) == IF a < b THEN a ELSE b

\* defaults.RETRY_POLICY 'stop': stop_after_delay(30), asked after an attempt
\* that raised ShouldRetry, el seconds after the loop started.
stop(el) == el >= STOP_DELAY

\* Client.exceptions.get(tag)
Lookup(reg, tag) == IF tag \in DOMAIN reg THEN reg[tag] ELSE ""

\* The mapping of issue without the registry lookup: every tagged error
\* payload is handed back as the raw response.
error_mapping_unmapped(resp, reg) ==
    IF resp.body.fmt = "text" THEN Raise("JSONDecodeError")
    ELSE IF resp.body.fmt = "list" THEN Raise("AttributeError")
    ELSE ReturnResp(resp)
\* Client.issue lines 188-196: decode the payload of a response whose status
\* is not 200, raise the registered class of a tagged error payload and let
\* every exception of the block through; otherwise yield the response.
error_mapping(resp, reg) ==
    IF resp.body.fmt = "text" THEN Raise("JSONDecodeError")
    ELSE IF resp.body.fmt = "list" THEN Raise("AttributeError")
    ELSE IF /\ resp.body.status = "error"
            /\ resp.body.cls # ""
            /\ Lookup(reg, resp.body.cls) # ""
         THEN Raise(Lookup(reg, resp.body.cls))
         ELSE ReturnResp(resp)

\* Client.issue line 185: leaving 'async with ... as res', by the end of the
\* caller's block or by an exception, releases res, the one response that was
\* entered.
release(h, resp) == h \ {resp.attempt}

\* Client.issue lines 185-186 and 196: the response retriable_issue returned
\* is entered; a status other than 200 goes on to await res.json(), a 200 is
\* yielded to the caller's block.
Entered(t, resp) ==
    /\ pc' = [pc EXCEPT ![t] = IF resp.status # 200 THEN "decode" ELSE "yielded"]
    /\ result' = [result EXCEPT ![t] = NoResult]

\* retriable_issue returns resp: to Client.issue, which enters it, or to the
\* application that called retriable_issue itself.
Obtained(t, resp) ==
    IF op[t] = "retriable_issue"
    THEN /\ pc' = [pc EXCEPT ![t] = "done"]
         /\ result' = [result EXCEPT ![t] = ReturnResp(resp)]
    ELSE Entered(t, resp)

\* signals.return_from_signal lines 29-34: the RetryError is unwrapped to the
\* ShouldRetry of the last attempt, whose carried value is raised when it is
\* an exception and returned when it is a response.
return_from_signal(t, out) ==
    IF out.kind = "exc"
    THEN /\ pc' = [pc EXCEPT ![t] = "done"]
         /\ result' = [result EXCEPT ![t] = Raise(out.exc)]
    ELSE Obtained(t, out.resp)

\* tenacity's loop after an attempt raised ShouldRetry, el seconds after the
\* loop started: RetryError when the stop strategy says so, a sleep otherwise.
Signalled(t, out, el) ==
    IF stop(el)
    THEN return_from_signal(t, out)
    ELSE /\ pc' = [pc EXCEPT ![t] = "sleep"]
         /\ result' = [result EXCEPT ![t] = NoResult]

\* client.issue(method, p): the first attempt starts with get_base_url.
issue(t, p) ==
    /\ Begin(t, "issue", 1, p)
    /\ get_host(t, "issue")
    /\ UNCHANGED <<static, host, exceptions, configVars, expiries, directCalls>>

\* client.get('/healthcheck'), as example.py does.
CallIssue(t) == issue(t, "/healthcheck")

\* await client.retriable_issue(method, '/healthcheck'), the retrying callable
\* of line 83 called by the application itself.
CallRetriableIssue(t) ==
    /\ Begin(t, "retriable_issue", 1, "/healthcheck")
    /\ get_host(t, "retriable_issue")
    /\ UNCHANGED <<static, host, exceptions, configVars, expiries, directCalls>>

\* The transport answers the request of _retriable_issue with status s and
\* body b, the attempt having taken dt seconds; _check_status classifies it
\* and its ShouldRetry has to pass the except clause of _check_error.
\* The transport is opaque: it answers whether or not the session is closed.
\* The response is held from here on.
TransportResponds(t, s, b, dt) ==
    /\ pc[t] = "request"
    /\ LET resp == [status |-> s, body |-> b, attempt |-> attempts[t]]
           el == Min(elapsed[t] + dt, STOP_DELAY)
           signal == _check_status(s, retry_codes)
           raised == IF signal THEN _check_error("ShouldRetry", retry_errors)
                     ELSE ""
           retry == raised = "ShouldRetry"
           out == [kind |-> "resp", resp |-> resp, exc |-> "", retry |-> retry,
                   took |-> dt]
       IN /\ retry => attempts[t] <= MaxFailures
          /\ elapsed' = [elapsed EXCEPT ![t] = el]
          /\ fails' = [fails EXCEPT ![t] = IF retry THEN fails[t] + 1 ELSE fails[t]]
          /\ last' = [last EXCEPT ![t] = out]
          /\ IF retry THEN Signalled(t, out, el)
             ELSE IF signal
             THEN /\ pc' = [pc EXCEPT ![t] = "done"]
                  /\ result' = [result EXCEPT ![t] = Raise(raised)]
             ELSE Obtained(t, resp)
          /\ held' = [held EXCEPT ![t] = held[t] \cup {resp.attempt}]
    /\ UNCHANGED <<clientVars, configVars, expiries, resolverVars, op, attempts,
                   path, url>>

\* The transport call raises e after dt seconds; _check_error classifies it.
TransportRaises(t, e, dt) ==
    /\ pc[t] = "request"
    /\ LET el == Min(elapsed[t] + dt, STOP_DELAY)
           raised == _check_error(e, retry_errors)
           retry == raised = "ShouldRetry"
           out == [kind |-> "exc", resp |-> NoResp, exc |-> e, retry |-> retry,
                   took |-> dt]
       IN /\ retry => attempts[t] <= MaxFailures
          /\ elapsed' = [elapsed EXCEPT ![t] = el]
          /\ fails' = [fails EXCEPT ![t] = IF retry THEN fails[t] + 1 ELSE fails[t]]
          /\ last' = [last EXCEPT ![t] = out]
          /\ IF retry
             THEN Signalled(t, out, el)
             ELSE /\ pc' = [pc EXCEPT ![t] = "done"]
                  /\ result' = [result EXCEPT ![t] = Raise(raised)]
    /\ UNCHANGED <<clientVars, configVars, expiries, resolverVars, op, attempts,
                   path, url, held>>

\* The backoff sleep of w seconds ends and the next attempt starts, again
\* with get_base_url.
BackoffDone(t, w) ==
    /\ pc[t] = "sleep"
    /\ w \in Waits(attempts[t])
    /\ elapsed' = [elapsed EXCEPT ![t] = Min(elapsed[t] + w, STOP_DELAY)]
    /\ attempts' = [attempts EXCEPT ![t] = attempts[t] + 1]
    /\ UNCHANGED path
    /\ get_host(t, op[t])
    /\ UNCHANGED <<static, host, exceptions, configVars, expiries, directCalls,
                   op, fails, last, held>>

\* await res.json() of issue returns or raises, then lines 189-196 run: an
\* exception leaves 'async with', which releases the response; otherwise the
\* response is yielded to the caller's block.
Decode(t) ==
    /\ pc[t] = "decode"
    /\ LET outcome == error_mapping(last[t].resp, exceptions)
       IN IF outcome.how = "raise"
          THEN /\ pc' = [pc EXCEPT ![t] = "done"]
               /\ result' = [result EXCEPT ![t] = outcome]
               /\ held' = [held EXCEPT ![t] = release(held[t], last[t].resp)]
          ELSE /\ pc' = [pc EXCEPT ![t] = "yielded"]
               /\ UNCHANGED <<result, held>>
    /\ UNCHANGED <<clientVars, configVars, expiries, resolverVars, op,
                   attempts, elapsed, fails, last, path, url>>

\* The caller's block of 'async with client.issue(...) as res' ends: the
\* response is released and the issue is over.
ScopeExits(t) ==
    /\ pc[t] = "yielded"
    /\ pc' = [pc EXCEPT ![t] = "done"]
    /\ result' = [result EXCEPT ![t] = ReturnResp(last[t].resp)]
    /\ held' = [held EXCEPT ![t] = release(held[t], last[t].resp)]
    /\ UNCHANGED <<clientVars, configVars, expiries, resolverVars, op,
                   attempts, elapsed, fails, last, path, url>>

\* Client.register_exception_cls(name, cls)
register_exception_cls(name, cls) ==
    /\ constructed = "ok"
    /\ exceptions' = [exceptions EXCEPT ![name] = cls]
    /\ UNCHANGED <<static, host, resolving, resolved, closed, configVars,
                   expiries, resolverVars, taskVars>>

\* ------------------------------------------------------- specifications
\* Python truth of an Optional[str]: None and '' are false.
Truthy(x) == x \notin {"None", ""}
\* Python's 'a or b'.
Or(a, b) == IF Truthy(a) THEN a ELSE b

\* Client.__init__ lines 68-75: static when 'not host' is false.
init_static(h) == Truthy(h)

\* The class attributes (service_name, prefix, host) of a Client class.
ClassAttrs(sn, px, h) == [service_name |-> sn, prefix |-> px, host |-> h]
\* The arguments of Client(env, service_name=, prefix=, host=).
Args(e, sn, px, h) == [env |-> e, service_name |-> sn, prefix |-> px, host |-> h]
\* Client itself: no service_name, prefix '' and no host at class level.
PlainClass == ClassAttrs("None", "", "None")

\* Client.__init__ lines 46-49 with only the service_name test.
service_name_twice(c, a) == Truthy(c.service_name) /\ Truthy(a.service_name)
\* Client.__init__ lines 46-49: a field given at class and at instance level.
declared_twice(c, a) ==
    \/ Truthy(c.service_name) /\ Truthy(a.service_name)
    \/ Truthy(c.prefix) /\ Truthy(a.prefix)
\* Client.__init__ lines 60-64.
init_service_name(c, a) == Or(a.service_name, c.service_name)
init_host(c, a) == Or(a.host, c.host)
init_prefix(c, a) == IF a.prefix = "None" THEN a.prefix ELSE c.prefix
\* Client.__init__ lines 68-71: auto-resolve mode without the means to resolve.
unresolvable(c, a) ==
    /\ ~Truthy(init_host(c, a))
    /\ ~Truthy(init_service_name(c, a)) /\ ~Truthy(a.env)

\* Client.__init__ on class c with arguments a and the default configuration:
\* a TypeError leaves nothing behind, else the attributes are set and the
\* Session is created.
Construct(c, a) ==
    /\ constructed = "no"
    /\ ctor' = [cls |-> c, args |-> a]
    /\ IF declared_twice(c, a) \/ unresolvable(c, a)
       THEN /\ constructed' = "TypeError"
            /\ UNCHANGED <<static, host, _prefix, session>>
       ELSE /\ constructed' = "ok"
            /\ static' = init_static(init_host(c, a))
            /\ host' = init_host(c, a)
            /\ _prefix' = init_prefix(c, a)
            /\ session' = TRUE
    /\ UNCHANGED <<resolving, resolved, closed, exceptions, retry_codes,
                   retry_errors, retry_codes_arg, expiries, resolverVars,
                   taskVars>>

\* The Client after construction, with host or without, no task started:
\* Client('stag', service_name='skyscraper-api') or Client(host=h).
InitClient(h, codes, errors, on_connerr, excs) ==
    /\ constructed = "ok"
    /\ ctor = [cls |-> PlainClass,
               args |-> IF Truthy(h) THEN Args("None", "None", "", h)
                        ELSE Args("stag", "skyscraper-api", "", h)]
    /\ session = TRUE
    /\ _prefix = ""
    /\ path = [t \in Tasks |-> ""]
    /\ url = [t \in Tasks |-> ""]
    /\ held = [t \in Tasks |-> {}]
    /\ static = init_static(h)
    /\ host = Or(h, PlainClass.host)
    /\ resolving = FALSE
    /\ resolved = "absent"
    /\ closed = FALSE
    /\ exceptions = excs
    /\ retry_codes_arg = codes
    /\ retry_codes = post_init_codes(codes)
    /\ retry_errors = post_init_errors(errors, on_connerr)
    /\ expiries = 0
    /\ resolverCalls = 0
    /\ lastResolution = "none"
    /\ directCalls = 0
    /\ pc = [t \in Tasks |-> "idle"]
    /\ op = [t \in Tasks |-> "none"]
    /\ attempts = [t \in Tasks |-> 0]
    /\ elapsed = [t \in Tasks |-> 0]
    /\ fails = [t \in Tasks |-> 0]
    /\ last = [t \in Tasks |-> NoAttempt]
    /\ result = [t \in Tasks |-> NoResult]

\* A task whose requests the dispatch specification follows.
Dispatchers == {1}
\* What the transport answers in the resolution specification: success or a
\* retriable status, with a plain JSON object as body.
PlainBody == [fmt |-> "object", status |-> "ok", cls |-> ""]
FewStatuses == {200, 500}
\* defaults.RETRY_CODES
DefaultCodes == {StrCode(<<"5", "x", "x">>)}

\* Construction with the default configuration, with and without a host.
Init ==
    \E h \in {NoHost, StaticHost} :
        InitClient(h, DefaultCodes, TupleOf({}), TRUE, NoExceptions)

\* Every task runs get_host, open, close and resolve_host on the one Client
\* and one of them issues requests, which the transport answers at once with
\* 200 or, MaxFailures times at most, 500 (so the retry loop ends with a 200
\* and nothing is decoded); the resolver service answers or fails.
Next ==
    \/ \E t \in Tasks : CallGetHost(t)
    \/ \E t \in Tasks : CallOpen(t)
    \/ \E t \in Tasks : CallClose(t)
    \/ \E t \in Tasks : SessionCloses(t)
    \/ \E t \in Dispatchers : CallIssue(t)
    \/ \E t \in Tasks : CallResolveHost(t)
    \/ \E t \in Tasks, h \in ResolvedHosts : ResolverReturns(t, h)
    \/ \E t \in Tasks : ResolverExits(t)
    \/ \E t \in Tasks : ResolverRaises(t)
    \/ \E t \in Tasks : WaiterWakes(t)
    \/ \E t \in Tasks, s \in FewStatuses : TransportResponds(t, s, PlainBody, 0)
    \/ \E t \in Tasks, w \in AllWaits : BackoffDone(t, w)
    \/ \E t \in Tasks : ScopeExits(t)

Spec == Init /\ [][Next]_vars

\* The life of the Client: every task opens it (open or __aenter__), asks for
\* the host and closes it; the resolver service answers or fails; the clock
\* advances.
NextLifecycle ==
    \/ \E t \in Tasks : CallGetHost(t)
    \/ \E t \in Tasks : CallOpen(t)
    \/ \E t \in Tasks : CallAEnter(t)
    \/ \E t \in Tasks : CallClose(t)
    \/ \E t \in Tasks : SessionCloses(t)
    \/ \E t \in Tasks, h \in ResolvedHosts : ResolverReturns(t, h)
    \/ \E t \in Tasks : ResolverExits(t)
    \/ \E t \in Tasks : ResolverRaises(t)
    \/ \E t \in Tasks : WaiterWakes(t)
    \/ TimePasses

SpecLifecycle == Init /\ [][NextLifecycle]_vars

\* The classes Client is constructed from and the arguments it is given.
ServiceNames == {"None", "skyscraper-api"}
Envs == {"None", "stag"}
ClassPrefixes == {"", "/v1"}
ArgPrefixes == {"None", "", "/api"}
Hosts == {"None", StaticHost}
Classes ==
    {ClassAttrs(sn, px, h) : sn \in ServiceNames, px \in ClassPrefixes, h \in Hosts}
Arguments ==
    {Args(e, sn, px, h) : e \in Envs, sn \in ServiceNames, px \in ArgPrefixes,
                          h \in Hosts}

\* Before Client(...): nothing constructed, the configuration is the default.
InitConstruct ==
    /\ constructed = "no"
    /\ ctor = [cls |-> PlainClass, args |-> Args("None", "None", "", "None")]
    /\ session = FALSE
    /\ _prefix = ""
    /\ path = [t \in Tasks |-> ""]
    /\ url = [t \in Tasks |-> ""]
    /\ held = [t \in Tasks |-> {}]
    /\ static = FALSE
    /\ host = NoHost
    /\ resolving = FALSE
    /\ resolved = "absent"
    /\ closed = FALSE
    /\ exceptions = NoExceptions
    /\ retry_codes_arg = DefaultCodes
    /\ retry_codes = post_init_codes(DefaultCodes)
    /\ retry_errors = post_init_errors(TupleOf({}), TRUE)
    /\ expiries = 0
    /\ resolverCalls = 0
    /\ lastResolution = "none"
    /\ directCalls = 0
    /\ pc = [t \in Tasks |-> "idle"]
    /\ op = [t \in Tasks |-> "none"]
    /\ attempts = [t \in Tasks |-> 0]
    /\ elapsed = [t \in Tasks |-> 0]
    /\ fails = [t \in Tasks |-> 0]
    /\ last = [t \in Tasks |-> NoAttempt]
    /\ result = [t \in Tasks |-> NoResult]

\* A Client of any class is constructed with any arguments; if that succeeds,
\* one task issues requests on it.
NextConstruct ==
    \/ \E c \in Classes, a \in Arguments : Construct(c, a)
    \/ \E t \in Dispatchers, p \in Paths : issue(t, p)
    \/ \E t \in Dispatchers : ResolverReturns(t, "http://a")
    \/ \E t \in Dispatchers : ResolverExits(t)
    \/ \E t \in Dispatchers, s \in FewStatuses :
            TransportResponds(t, s, PlainBody, 0)
    \/ \E t \in Dispatchers, w \in AllWaits : BackoffDone(t, w)
    \/ \E t \in Dispatchers : ScopeExits(t)

SpecConstruct == InitConstruct /\ [][NextConstruct]_vars

\* Construction with every retry configuration and registry, with and
\* without a host.
InitDispatch ==
    \E h \in {NoHost, StaticHost}, codes \in RetryCodeArgs,
       errors \in RetryErrorArgs, on_connerr \in BOOLEAN,
       excs \in ExceptionArgs :
        InitClient(h, codes, errors, on_connerr, excs)

\* One task issues requests, one after the other, against a transport that
\* answers with any status and body or raises any error; exception classes
\* are registered meanwhile.
NextDispatch ==
    \/ \E t \in Dispatchers : CallIssue(t)
    \/ \E t \in Dispatchers : CallRetriableIssue(t)
    \/ \E t \in Dispatchers, h \in ResolvedHosts : ResolverReturns(t, h)
    \/ \E t \in Dispatchers : ResolverExits(t)
    \/ \E t \in Dispatchers : ResolverRaises(t)
    \/ \E t \in Dispatchers, s \in Statuses, b \in Bodies, dt \in AttemptTimes :
            TransportResponds(t, s, b, dt)
    \/ \E t \in Dispatchers, e \in ErrorKinds, dt \in AttemptTimes :
            TransportRaises(t, e, dt)
    \/ \E t \in Dispatchers, w \in AllWaits : BackoffDone(t, w)
    \/ \E t \in Dispatchers : Decode(t)
    \/ \E t \in Dispatchers : ScopeExits(t)
    \/ \E r \in Registrations : register_exception_cls(r[1], r[2])

SpecDispatch == InitDispatch /\ [][NextDispatch]_vars

\* What asyncio and the collaborators guarantee: a coroutine whose event is
\* set is resumed, a pending resolver or transport call answers or raises, the
\* CrossRoads block is left, the session closes, a sleep and the caller's block
\* of an issue end.  Nothing obliges a task to start an operation.
Fairness ==
    \A t \in Tasks :
        /\ WF_vars(WaiterWakes(t))
        /\ WF_vars(ResolverRaises(t) \/ \E h \in ResolvedHosts : ResolverReturns(t, h))
        /\ WF_vars(ResolverExits(t))
        /\ WF_vars(SessionCloses(t))
        /\ WF_vars(ScopeExits(t))
        /\ WF_vars(\E s \in FewStatuses : TransportResponds(t, s, PlainBody, 0))
        /\ WF_vars(\E w \in AllWaits : BackoffDone(t, w))

FairSpec == Spec /\ Fairness

\* ----------------------------------------------------------------- claims
\* The host, service_name and env the constructed Client would work with, as
\* the caller gave them: at instance level, or else at class level.
GivenHost == Or(ctor.args.host, ctor.cls.host)
GivenServiceName == Or(ctor.args.service_name, ctor.cls.service_name)
GivenPrefix == Or(ctor.args.prefix, ctor.cls.prefix)

Dynamic == ~static
GotHost(t) == op[t] = "get_host" /\ pc[t] = "done" /\ result[t].how = "return"

\* C1: on a Dynamic Client at most one resolver-service call is outstanding in
\* every reachable state, whatever get_host, open and issue calls interleave
\* and whether resolutions succeed or fail.
C1_SingleOutstanding == Dynamic => Cardinality(Outstanding) <= 1
\* A resolver call is outstanding while another task waits on it.
C1_Witness ==
    /\ Dynamic
    /\ \E t, u \in Tasks : pc[t] = "crossroads" /\ pc[u] = "wait_resolved"

\* C2: when concurrent get_host calls on a Dynamic Client without a cached
\* host are served by a resolution that succeeds, one resolver call was made
\* in total and every caller returns the one resolved host.
C2_SingleFlight ==
    Dynamic /\ directCalls = 0 =>
        \A t \in Tasks :
            GotHost(t) =>
                /\ resolverCalls = 1
                /\ result[t].host \in ResolvedHosts
                /\ result[t].host = host
                /\ \A u \in Tasks : GotHost(u) => result[u].host = result[t].host
\* Every task called get_host, one resolved and the others waited for it.
C2_Witness ==
    /\ Dynamic
    /\ \A t \in Tasks : GotHost(t) /\ result[t].via \in {"resolved", "waited"}
    /\ \E t \in Tasks : result[t].via = "waited"

\* C3: once the in-flight resolver call has failed, every get_host waiting
\* on that resolution ends with the resolution error.
C3_WaitersFail ==
    \A t \in Tasks :
        [](pc[t] = "wait_resolved" /\ op[t] = "get_host" /\ lastResolution = "failed"
            => <>(pc[t] = "done" /\ result[t] = Raise("ResolutionError")))

\* C4: after a failed resolution, and with no resolver call outstanding, the
\* host is unresolved and no resolution is marked in flight (so that the next
\* get_host starts a resolver call).
C4_FreshAfterFailure ==
    lastResolution = "failed" /\ Outstanding = {}
        => host = NoHost /\ ~resolving

\* C5: a get_host call on a Dynamic Client with a stored host returns that
\* host without a resolver call while no 60-minute boundary has been crossed
\* since the resolution, and starts a new resolver call once one has.
C5_ExpiryReresolves ==
    [][\A t \in Tasks :
        Dynamic /\ host # NoHost /\ CallGetHost(t) =>
            IF expiries = 0
            THEN /\ result'[t] = ReturnHost(host, "cached")
                 /\ resolverCalls' = resolverCalls
            ELSE /\ pc'[t] = "crossroads"
                 /\ resolverCalls' = resolverCalls + 1]_vars

\* C6: a Client constructed with a host never calls the resolver service,
\* whatever open, get_host, issue and close calls are made, and get_host
\* returns the constructed host.
C6_StaticNeverResolves ==
    static /\ directCalls = 0 =>
        /\ resolverCalls = 0
        /\ Outstanding = {}
        /\ host = StaticHost
        /\ \A t \in Tasks :
            op[t] = "get_host" /\ pc[t] = "done" =>
                result[t].how = "return" /\ result[t].host = StaticHost
\* A static Client that was opened and closed, answered get_host and issued.
C6_Witness ==
    /\ static
    /\ closed
    /\ \E t, u \in Tasks :
        /\ GotHost(t) /\ result[t].host = StaticHost
        /\ op[u] = "open" /\ pc[u] = "done"

\* The three patterns a three-digit status code S answers to: its decimal
\* form, its first two digits and "x", its first digit and "xx".
PatternsOf(S) ==
    LET d1 == Digits[(S \div 100) + 1]
        d2 == Digits[((S \div 10) % 10) + 1]
        d3 == Digits[(S % 10) + 1]
    IN {<<d1, d2, d3>>, <<d1, d2, "x">>, <<d1, "x", "x">>}
\* Status S answers to an entry of the configured retry set: an int entry
\* counts as its decimal form.
InRetrySet(S, arg) ==
    \E e \in arg : IF e.isInt THEN e.n = S ELSE e.s \in PatternsOf(S)

\* C7: an attempt that returned status S is classified retriable by
\* _check_status exactly when the string form of S, its first two digits
\* followed by "x" or its first digit followed by "xx" is in the configured
\* retry set, an integer entry counting as its string form; the retry loop
\* treats a response as a retriable failure, and sleeps after it, only when it
\* is classified so.
C7_StatusClassified ==
    \A t \in Tasks :
        /\ last[t].kind = "resp" =>
            /\ _check_status(last[t].resp.status, retry_codes)
                    <=> InRetrySet(last[t].resp.status, retry_codes_arg)
            /\ last[t].retry => InRetrySet(last[t].resp.status, retry_codes_arg)
        /\ pc[t] = "sleep" /\ last[t].kind = "resp" =>
            InRetrySet(last[t].resp.status, retry_codes_arg)
\* The loop sleeps after a 404 that an integer entry made retriable.
C7_Witness ==
    \E t \in Tasks :
        /\ pc[t] = "sleep"
        /\ last[t].resp.status = 404
        /\ retry_codes_arg = {IntCode(404)}

IssueDone(t) == op[t] = "issue" /\ pc[t] = "done"
\* The last attempt of t's issue was answered 200 and not classified retriable.
Succeeded(t) ==
    last[t].kind = "resp" /\ ~last[t].retry /\ last[t].resp.status = 200
\* The retry loop of t's issue ended on an attempt classified retriable.
Exhausted(t) == IssueDone(t) /\ last[t].retry

\* The last attempt of t failed in a way the configuration calls retriable.
RetriableFailure(t) ==
    \/ last[t].kind = "resp" /\ InRetrySet(last[t].resp.status, retry_codes_arg)
    \/ last[t].kind = "exc" /\ last[t].exc \in retry_errors.kinds

\* C8: when the transport failed retriably on the first K attempts and then
\* succeeded, and the stop budget (30 seconds since the first attempt) was
\* not used up after any of the K failures, issue made exactly K+1 attempts
\* and returned the response of attempt K+1; an issue ends on a retriable
\* failure only when the budget is used up.
C8_RetriesUntilSuccess ==
    \A t \in Tasks :
        /\ IssueDone(t) /\ Succeeded(t) =>
            /\ attempts[t] = fails[t] + 1
            /\ result[t] = ReturnResp(last[t].resp)
            /\ result[t].resp.attempt = fails[t] + 1
        /\ IssueDone(t) /\ RetriableFailure(t) => elapsed[t] >= STOP_DELAY
        /\ pc[t] = "sleep" => elapsed[t] < STOP_DELAY /\ attempts[t] = fails[t]

\* C9: when the stop condition is reached while attempts still fail
\* retriably, issue surfaces the value the last attempt's signal carries: it
\* raises it when it is an error and returns it when it is a response.
C9_LastVerdictSurfaces ==
    \A t \in Tasks :
        Exhausted(t) =>
            IF last[t].kind = "exc"
            THEN result[t] = Raise(last[t].exc)
            ELSE result[t] = ReturnResp(last[t].resp)

\* The response of t's issue is not 2xx, was not classified retriable and
\* carries a payload with status "error" and a cls tag.
TaggedError(t) ==
    /\ op[t] = "issue"
    /\ last[t].kind = "resp" /\ ~last[t].retry
    /\ ~(last[t].resp.status \in 200..299)
    /\ last[t].resp.body.fmt = "object"
    /\ last[t].resp.body.status = "error"
    /\ last[t].resp.body.cls \in Tags

\* C10: for a non-2xx, non-retriable response whose payload has status
\* "error" and a cls tag, issue raises the class registered for the tag when
\* there is one and returns the raw response when the tag is not registered.
C10_ErrorMapping ==
    [][\A t \in Tasks :
        /\ TaggedError(t) /\ Decode(t) =>
            LET tag == last[t].resp.body.cls
            IN IF exceptions[tag] # ""
               THEN pc'[t] = "done" /\ result'[t] = Raise(exceptions[tag])
               ELSE pc'[t] = "yielded"
        /\ TaggedError(t) /\ ScopeExits(t) =>
            result'[t] = ReturnResp(last[t].resp)]_vars
\* A 404 tagged NotFound was raised as the registered NotFoundError.
C10_Witness ==
    \E t \in Tasks :
        /\ TaggedError(t) /\ pc[t] = "done"
        /\ last[t].resp.status = 404
        /\ last[t].resp.body.cls = "NotFound"
        /\ exceptions["NotFound"] = "NotFoundError"
        /\ result[t] = Raise("NotFoundError")

\* C11: a Client(...) call with no host, at instance or class level, raises
\* the configuration error unless both service_name and env are provided.
C11_NeedsNameAndEnv ==
    constructed # "no" /\ ~Truthy(GivenHost)
        /\ ~(Truthy(GivenServiceName) /\ Truthy(ctor.args.env))
        => constructed = "TypeError"

\* C12: when the class declares service_name (or prefix) and the same field
\* is passed as an argument, Client(...) raises the configuration error, no
\* Client and no transport session exist afterwards and no operation runs.
C12_DeclaredTwiceRejected ==
    /\ constructed # "no"
    /\ \/ Truthy(ctor.cls.service_name) /\ Truthy(ctor.args.service_name)
       \/ Truthy(ctor.cls.prefix) /\ Truthy(ctor.args.prefix)
    => /\ constructed = "TypeError"
       /\ ~session
       /\ \A t \in Tasks : pc[t] = "idle"
\* A class with prefix '/v1' was constructed with prefix='/api' and a host.
C12_Witness ==
    /\ constructed = "TypeError"
    /\ ctor.cls.prefix = "/v1" /\ ctor.args.prefix = "/api"
    /\ ~Truthy(ctor.cls.service_name)
    /\ Truthy(ctor.args.host)

\* C13: the url of every request attempt is the host, then the prefix given
\* at instance level or else at class level, then the path of the issue call.
C13_PrefixApplied ==
    \A t \in Tasks :
        pc[t] = "request" /\ ctor.args.prefix # "None"
            => url[t] = host \o GivenPrefix \o path[t]

\* C14: every close call, on a Client that was opened or not and whose open
\* succeeded or failed, ends without an error with the session closed, and a
\* closed session stays closed whatever is called afterwards. That a repeated
\* close of the session is harmless is the transport's part (session_close);
\* that close reaches the session in every state of the Client is the
\* Client's.
C14_CloseIdempotent ==
    [][/\ closed => closed'
       /\ \A t \in Tasks :
            op'[t] = "close" /\ pc'[t] = "done" =>
                closed' /\ result'[t] = ReturnNone("")]_vars
\* close returned on a Client that never had a host and whose open had failed:
\* the session was closed twice, by open and by close.
C14_Witness ==
    /\ Dynamic /\ host = NoHost /\ closed
    /\ \E t, u \in Tasks :
        /\ op[t] = "close" /\ pc[t] = "done" /\ result[t] = ReturnNone("")
        /\ op[u] = "open" /\ pc[u] = "done" /\ result[u].how = "raise"

\* C15: when the resolution fails during open on a Dynamic Client, the session
\* is closed by the time open raises the resolution error, and that open never
\* returns.
C15_FailedOpenCloses ==
    [][\A t \in Tasks :
        Dynamic /\ op[t] \in Opening =>
            /\ pc[t] = "crossroads" /\ ResolverRaises(t) =>
                    pc'[t] = "session_close" /\ result'[t] = NoResult
            /\ pc[t] = "session_close" /\ pc'[t] = "done" =>
                    closed' /\ result'[t] = Raise("ResolutionError")]_vars
\* An open on a Dynamic Client ended with the resolution error.
C15_Witness ==
    /\ Dynamic /\ closed
    /\ \E t \in Tasks :
        op[t] = "open" /\ pc[t] = "done" /\ result[t] = Raise("ResolutionError")

\* The last attempt of t's issue was answered with a 2xx status.
Answered2xx(t) ==
    op[t] = "issue" /\ last[t].kind = "resp" /\ last[t].resp.status \in 200..299

\* C16: issue reads the payload of a response only when its status is not
\* 2xx: a response with status 200, 201 or any other 2xx is never decoded
\* and is returned to the caller as it is.
C16_Only2xxUndecoded ==
    \A t \in Tasks :
        Answered2xx(t) =>
            /\ pc[t] # "decode"
            /\ pc[t] = "done" => result[t] = ReturnResp(last[t].resp)

\* The payload of the last response is an error payload whose tag is
\* registered.
RegisteredPayload(t) ==
    /\ last[t].resp.body.fmt = "object"
    /\ last[t].resp.body.status = "error"
    /\ Lookup(exceptions, last[t].resp.body.cls) # ""

\* C17: a non-2xx response that is not retriable and whose body is no error
\* payload with a registered tag (no JSON, JSON that is no object, an object
\* without the marker or with an unregistered tag) is returned to the caller
\* as a normal response, nothing is raised.
C17_OtherBodiesReturned ==
    \A t \in Tasks :
        /\ IssueDone(t)
        /\ last[t].kind = "resp" /\ ~last[t].retry
        /\ ~(last[t].resp.status \in 200..299)
        /\ ~RegisteredPayload(t)
        => result[t] = ReturnResp(last[t].resp)

\* C18: the retry loop sleeps only after an attempt that raised a configured
\* retriable error kind or returned a retriable status; an attempt that raises
\* another error kind, a resolution error inside an attempt and a mapped domain
\* error end the issue at once with that error, without a sleep.
C18_OnlyRetriablesBackOff ==
    [][\A t \in Tasks :
        /\ pc[t] = "request" /\ pc'[t] = "sleep" =>
                \/ last'[t].kind = "exc" /\ last'[t].exc \in retry_errors.kinds
                \/ /\ last'[t].kind = "resp"
                   /\ InRetrySet(last'[t].resp.status, retry_codes_arg)
        /\ \A e \in ErrorKinds \ retry_errors.kinds, dt \in AttemptTimes :
                TransportRaises(t, e, dt) =>
                    pc'[t] = "done" /\ result'[t] = Raise(e)
        /\ op[t] = "issue" /\ ResolverRaises(t) =>
                pc'[t] = "done" /\ result'[t] = Raise("ResolutionError")
        /\ Decode(t) /\ TaggedError(t) /\ RegisteredPayload(t) =>
                /\ pc'[t] = "done"
                /\ result'[t] = Raise(Lookup(exceptions, last[t].resp.body.cls))]_vars
\* C19: no attempt takes longer than the configured timeout, and an attempt
\* ended by the timeout is classified retriable.
C19_TimeoutBoundsAttempt ==
    \A t \in Tasks :
        /\ last[t].took <= TIMEOUT
        /\ last[t].kind = "exc" /\ last[t].exc = "TimeoutError" => last[t].retry

\* C20: when an issue has ended, by a return or by an exception, every
\* response the transport gave to one of its attempts has been released.
C20_AllReleased ==
    \A t \in Tasks : IssueDone(t) => held[t] = {}

====
